---- MODULE Spec2Model ----
(***************************************************************************)
(* Model of react/features/base/react/components/web/Watermarks.js: the    *)
(* Watermarks React component, its construction-time state, its rendering  *)
(* of the three watermark slots (Jitsi/product, brand, powered-by) and the *)
(* _mapStateToProps function that derives its props from the Redux store   *)
(* and the global interfaceConfig object.                                  *)
(***************************************************************************)
EXTENDS Naturals, Sequences, FiniteSets

(***************************************************************************)
(* JavaScript values.  Every value is a record of two strings, a type tag  *)
(* and a payload, so that values of different JavaScript types can be      *)
(* compared.                                                               *)
(***************************************************************************)
Undefined == [t |-> "undefined", v |-> ""]

JsTrue == [t |-> "boolean", v |-> "true"]

JsFalse == [t |-> "boolean", v |-> "false"]

Str(s) == [t |-> "string", v |-> s]

Bool(b) == IF b THEN JsTrue ELSE JsFalse

\* ToBoolean: undefined, false and the empty string are falsy.
Truthy(x) == x /= Undefined /\ x /= JsFalse /\ x /= Str("")

\* a && b
JsAnd(a, b) == IF Truthy(a) THEN b ELSE a

\* a || b
JsOr(a, b) == IF Truthy(a) THEN a ELSE b

\* !a
JsNot(a) == Bool(~Truthy(a))

\* c ? a : b
JsCond(c, a, b) == IF Truthy(c) THEN a ELSE b

\* ToString, as a template literal's ${...} substitution applies it.
JsToString(x) == IF x.t = "undefined" THEN "undefined" ELSE x.v

\* The template literal `url(${x})`.
Url(x) == "url(" \o JsToString(x) \o ")"

(***************************************************************************)
(* React elements.  A rendered slot is null, a <div>, or an <a> around a   *)
(* child; an <a> wrapping a <div> carries the <div>'s className and style. *)
(***************************************************************************)
NullElement == [type |-> "null", className |-> "", backgroundImage |-> "", href |-> "", target |-> "", child |-> "none"]

Div(className, backgroundImage) == [type |-> "div", className |-> className, backgroundImage |-> backgroundImage, href |-> "", target |-> "", child |-> "none"]

Anchor(href, el) == [type |-> "a", className |-> el.className, backgroundImage |-> el.backgroundImage, href |-> JsToString(href), target |-> "_new", child |-> el.type]

_RIGHT_WATERMARK_STYLE == [backgroundImage |-> "url(images/rightwatermark.png)"]

(***************************************************************************)
(* Input domains.                                                          *)
(***************************************************************************)
JsBooleans == {JsFalse, JsTrue}

OptionalFlags == {Undefined, JsFalse, JsTrue}

BrandLinks == {Str(""), Str("https://brand.example")}

JitsiLinks == {Str(""), Str("https://jitsi.org")}

DefaultLogoUrls == {Str("images/watermark.png")}

OptionalClickUrls == {Undefined, Str(""), Str("https://x/home")}

OptionalImageUrls == {Undefined, Str(""), Str("https://x/logo.png")}

OptionalDefaultLogos == {Undefined, Str(""), Str("images/custom.png")}

Rooms == {Undefined, Str("room1")}

\* The global interfaceConfig object.
InterfaceConfigs == [filmStripOnly : JsBooleans, SHOW_BRAND_WATERMARK : JsBooleans, BRAND_WATERMARK_LINK : BrandLinks, SHOW_POWERED_BY : JsBooleans, SHOW_JITSI_WATERMARK : JsBooleans, SHOW_JITSI_WATERMARK_FOR_GUESTS : JsBooleans, JITSI_WATERMARK_LINK : JitsiLinks, DEFAULT_LOGO_URL : DefaultLogoUrls]

\* state['features/dynamic-branding'], any field of which may be absent.
BrandingStates == [customizationReady : OptionalFlags, customizationFailed : OptionalFlags, useDynamicBrandingData : OptionalFlags, logoClickUrl : OptionalClickUrls, logoImageUrl : OptionalImageUrls]

\* state['features/dynamic-branding'] with every field present.
PresentBrandingStates == [customizationReady : JsBooleans, customizationFailed : JsBooleans, useDynamicBrandingData : JsBooleans, logoClickUrl : {Str(""), Str("https://x/home")}, logoImageUrl : {Str("https://x/logo.png")}]

\* state['features/base/jwt']
JwtStates == [isGuest : JsBooleans]

\* state['features/base/conference']
ConferenceStates == [room : Rooms]

\* The component's own props, passed by its parent.
OwnProps == [defaultJitsiLogoURL : OptionalDefaultLogos]

VARIABLES interfaceConfig, store, ownProps, mounted, state, props, rendered, configModified

vars == <<interfaceConfig, store, ownProps, mounted, state, props, rendered, configModified>>

(***************************************************************************)
(* The component.                                                          *)
(***************************************************************************)
\* constructor(props): this.state
ConstructorMutantKeepsLink(cfg) ==
    LET showBrandWatermark == IF Truthy(cfg.filmStripOnly) THEN JsFalse ELSE cfg.SHOW_BRAND_WATERMARK
    IN  [brandWatermarkLink |-> cfg.BRAND_WATERMARK_LINK,
         showBrandWatermark |-> showBrandWatermark,
         showPoweredBy |-> cfg.SHOW_POWERED_BY]

ConstructorMutantIgnoresFilmStrip(cfg) ==
    LET showBrandWatermark == cfg.SHOW_BRAND_WATERMARK
    IN  [brandWatermarkLink |-> JsCond(showBrandWatermark, cfg.BRAND_WATERMARK_LINK, Str("")),
         showBrandWatermark |-> showBrandWatermark,
         showPoweredBy |-> cfg.SHOW_POWERED_BY]

ConstructorMutantPoweredByFilmStrip(cfg) ==
    LET showBrandWatermark == IF Truthy(cfg.filmStripOnly) THEN JsFalse ELSE cfg.SHOW_BRAND_WATERMARK
    IN  [brandWatermarkLink |-> JsCond(showBrandWatermark, cfg.BRAND_WATERMARK_LINK, Str("")),
         showBrandWatermark |-> showBrandWatermark,
         showPoweredBy |-> JsAnd(JsNot(cfg.filmStripOnly), cfg.SHOW_POWERED_BY)]

Constructor(cfg) ==
    LET showBrandWatermark == IF Truthy(cfg.filmStripOnly) THEN JsFalse ELSE cfg.SHOW_BRAND_WATERMARK
    IN  [brandWatermarkLink |-> JsCond(showBrandWatermark, cfg.BRAND_WATERMARK_LINK, Str("")),
         showBrandWatermark |-> showBrandWatermark,
         showPoweredBy |-> cfg.SHOW_POWERED_BY]

\* _renderBrandWatermark()
RenderBrandWatermark(st) ==
    IF Truthy(st.showBrandWatermark)
    THEN LET reactElement == Div("watermark rightwatermark", _RIGHT_WATERMARK_STYLE.backgroundImage)
         IN  IF Truthy(st.brandWatermarkLink)
             THEN Anchor(st.brandWatermarkLink, reactElement)
             ELSE reactElement
    ELSE NullElement

\* _renderJitsiWatermark()
RenderJitsiWatermarkMutantAlwaysStatic(p, cfg) ==
    IF Truthy(p._showJitsiWaterMark)
    THEN LET link == cfg.JITSI_WATERMARK_LINK
             backgroundImage == Url(JsOr(p.defaultJitsiLogoURL, cfg.DEFAULT_LOGO_URL))
             reactElement == Div("watermark leftwatermark", backgroundImage)
         IN  IF Truthy(link) THEN Anchor(link, reactElement) ELSE reactElement
    ELSE NullElement

RenderJitsiWatermarkMutantDynamicLink(p, cfg) ==
    IF Truthy(p._showJitsiWaterMark)
    THEN LET link == IF Truthy(p._useDynamicBrandingData) THEN p._customLogoLink
                     ELSE JsOr(p._customLogoLink, cfg.JITSI_WATERMARK_LINK)
             backgroundImage == IF Truthy(p._useDynamicBrandingData) THEN Url(p._customLogoUrl)
                                ELSE Url(JsOr(p.defaultJitsiLogoURL, cfg.DEFAULT_LOGO_URL))
             reactElement == Div("watermark leftwatermark", backgroundImage)
         IN  IF Truthy(link) THEN Anchor(link, reactElement) ELSE reactElement
    ELSE NullElement

RenderJitsiWatermark(p, cfg) ==
    IF Truthy(p._showJitsiWaterMark)
    THEN LET link == IF Truthy(p._useDynamicBrandingData) THEN p._customLogoLink
                     ELSE cfg.JITSI_WATERMARK_LINK
             backgroundImage == IF Truthy(p._useDynamicBrandingData) THEN Url(p._customLogoUrl)
                                ELSE Url(JsOr(p.defaultJitsiLogoURL, cfg.DEFAULT_LOGO_URL))
             reactElement == Div("watermark leftwatermark", backgroundImage)
         IN  IF Truthy(link) THEN Anchor(link, reactElement) ELSE reactElement
    ELSE NullElement

\* _renderPoweredBy()
RenderPoweredBy(st) ==
    IF Truthy(st.showPoweredBy)
    THEN [type |-> "a", className |-> "poweredby", backgroundImage |-> "", href |-> "http://jitsi.org", target |-> "_new", child |-> "span"]
    ELSE NullElement

\* render()
RenderComponentMutantBrandFromConfig(st, p, cfg) ==
    [jitsi |-> RenderJitsiWatermark(p, cfg),
     brand |-> RenderBrandWatermark(Constructor(cfg)),
     poweredBy |-> RenderPoweredBy(Constructor(cfg))]

RenderComponent(st, p, cfg) ==
    [jitsi |-> RenderJitsiWatermark(p, cfg), brand |-> RenderBrandWatermark(st), poweredBy |-> RenderPoweredBy(st)]

\* _mapStateToProps(state)
MapStateToPropsMutantNoFailedCheck(s, cfg) ==
    LET welcomePageVisible == JsNot(s.conference.room)
        showJitsiWatermark ==
            JsOr(JsAnd(JsAnd(JsNot(cfg.filmStripOnly), s.dynamicBranding.customizationReady),
                       JsOr(cfg.SHOW_JITSI_WATERMARK, JsAnd(s.jwt.isGuest, cfg.SHOW_JITSI_WATERMARK_FOR_GUESTS))),
                 welcomePageVisible)
    IN  [_customLogoLink |-> s.dynamicBranding.logoClickUrl,
         _customLogoUrl |-> s.dynamicBranding.logoImageUrl,
         _useDynamicBrandingData |-> s.dynamicBranding.useDynamicBrandingData,
         _showJitsiWaterMark |-> showJitsiWatermark]

MapStateToPropsMutantNoWelcomePage(s, cfg) ==
    LET showJitsiWatermark ==
            JsAnd(JsAnd(JsNot(cfg.filmStripOnly),
                        JsAnd(s.dynamicBranding.customizationReady, JsNot(s.dynamicBranding.customizationFailed))),
                  JsOr(cfg.SHOW_JITSI_WATERMARK, JsAnd(s.jwt.isGuest, cfg.SHOW_JITSI_WATERMARK_FOR_GUESTS)))
    IN  [_customLogoLink |-> s.dynamicBranding.logoClickUrl,
         _customLogoUrl |-> s.dynamicBranding.logoImageUrl,
         _useDynamicBrandingData |-> s.dynamicBranding.useDynamicBrandingData,
         _showJitsiWaterMark |-> showJitsiWatermark]

MapStateToProps(s, cfg) ==
    LET isGuest == s.jwt.isGuest
        customizationReady == s.dynamicBranding.customizationReady
        customizationFailed == s.dynamicBranding.customizationFailed
        welcomePageVisible == JsNot(s.conference.room)
        showJitsiWatermark ==
            JsOr(JsAnd(JsAnd(JsNot(cfg.filmStripOnly),
                             JsAnd(customizationReady, JsNot(customizationFailed))),
                       JsOr(cfg.SHOW_JITSI_WATERMARK, JsAnd(isGuest, cfg.SHOW_JITSI_WATERMARK_FOR_GUESTS))),
                 welcomePageVisible)
    IN  [_customLogoLink |-> s.dynamicBranding.logoClickUrl,
         _customLogoUrl |-> s.dynamicBranding.logoImageUrl,
         _useDynamicBrandingData |-> s.dynamicBranding.useDynamicBrandingData,
         _showJitsiWaterMark |-> showJitsiWatermark]

\* connect(_mapStateToProps): the wrapped component's props are its own props
\* merged with the props mapped from the store.
MergeProps(own, mapped) ==
    [_customLogoLink |-> mapped._customLogoLink,
     _customLogoUrl |-> mapped._customLogoUrl,
     _useDynamicBrandingData |-> mapped._useDynamicBrandingData,
     _showJitsiWaterMark |-> mapped._showJitsiWaterMark,
     defaultJitsiLogoURL |-> own.defaultJitsiLogoURL]

\* What the store, the parent and interfaceConfig hold before a component exists.
NoState == [brandWatermarkLink |-> Undefined, showBrandWatermark |-> Undefined, showPoweredBy |-> Undefined]

NoProps == [_customLogoLink |-> Undefined, _customLogoUrl |-> Undefined, _useDynamicBrandingData |-> Undefined, _showJitsiWaterMark |-> Undefined, defaultJitsiLogoURL |-> Undefined]

NoRender == [jitsi |-> NullElement, brand |-> NullElement, poweredBy |-> NullElement]

(***************************************************************************)
(* Operations.  interfaceConfig, the store and the parent's props are the  *)
(* component's environment; mounted, state, props and rendered are the     *)
(* connected component.  configModified records whether interfaceConfig    *)
(* has been assigned to since the mounted component was constructed.       *)
(***************************************************************************)
\* No component exists yet.
Unmounted ==
    /\ mounted = FALSE
    /\ state = NoState
    /\ props = NoProps
    /\ rendered = NoRender
    /\ configModified = FALSE

\* Any interface config, store snapshot and parent props; no component yet.
InitResolve ==
    /\ interfaceConfig \in InterfaceConfigs
    /\ store \in [dynamicBranding : BrandingStates, jwt : JwtStates, conference : ConferenceStates]
    /\ ownProps \in OwnProps
    /\ Unmounted

\* As InitResolve, with every dynamic-branding field present.
Init ==
    /\ interfaceConfig \in InterfaceConfigs
    /\ store \in [dynamicBranding : PresentBrandingStates, jwt : JwtStates, conference : ConferenceStates]
    /\ ownProps = [defaultJitsiLogoURL |-> Undefined]
    /\ Unmounted

\* The connected component is created: connect maps the store to props, the
\* constructor captures this.state, and render() runs.
Mount ==
    /\ ~mounted
    /\ mounted' = TRUE
    /\ state' = Constructor(interfaceConfig)
    /\ props' = MergeProps(ownProps, MapStateToProps(store, interfaceConfig))
    /\ rendered' = RenderComponent(state', props', interfaceConfig)
    /\ configModified' = FALSE
    /\ UNCHANGED <<interfaceConfig, store, ownProps>>

\* The store changes to newStore; connect's subscription maps it to props
\* again and the component renders with its constructed state.
NotifyMutantKeepsProps(newStore) ==
    /\ store' = newStore
    /\ IF mounted
       THEN /\ props' = props
            /\ rendered' = RenderComponent(state, props', interfaceConfig)
       ELSE UNCHANGED <<props, rendered>>
    /\ UNCHANGED <<interfaceConfig, ownProps, mounted, state, configModified>>

Notify(newStore) ==
    /\ store' = newStore
    /\ IF mounted
       THEN /\ props' = MergeProps(ownProps, MapStateToProps(newStore, interfaceConfig))
            /\ rendered' = RenderComponent(state, props', interfaceConfig)
       ELSE UNCHANGED <<props, rendered>>
    /\ UNCHANGED <<interfaceConfig, ownProps, mounted, state, configModified>>

\* state['features/dynamic-branding'] changes in one field.
DynamicBrandingUpdate ==
    \E f \in DOMAIN store.dynamicBranding :
        \E b \in PresentBrandingStates :
            /\ b /= store.dynamicBranding
            /\ b = [store.dynamicBranding EXCEPT ![f] = b[f]]
            /\ Notify([store EXCEPT !.dynamicBranding = b])

\* state['features/base/jwt'] changes.
JwtUpdate ==
    \E j \in JwtStates :
        /\ j /= store.jwt
        /\ Notify([store EXCEPT !.jwt = j])

\* state['features/base/conference'] changes: a room is joined or left.
ConferenceUpdate ==
    \E c \in ConferenceStates :
        /\ c /= store.conference
        /\ Notify([store EXCEPT !.conference = c])

\* The parent renders the component again without a store change.
Render ==
    /\ mounted
    /\ rendered' = RenderComponent(state, props, interfaceConfig)
    /\ UNCHANGED <<interfaceConfig, store, ownProps, mounted, state, props, configModified>>

\* The values a field of interfaceConfig takes.
FieldValues(f) ==
    CASE f = "BRAND_WATERMARK_LINK" -> BrandLinks
      [] f = "JITSI_WATERMARK_LINK" -> JitsiLinks
      [] f = "DEFAULT_LOGO_URL" -> DefaultLogoUrls
      [] OTHER -> JsBooleans

\* One field of the global interfaceConfig object is assigned a new value.
ConfigChange ==
    \E f \in DOMAIN interfaceConfig :
        \E v \in FieldValues(f) :
            /\ v /= interfaceConfig[f]
            /\ interfaceConfig' = [interfaceConfig EXCEPT ![f] = v]
            /\ configModified' = mounted
            /\ UNCHANGED <<store, ownProps, mounted, state, props, rendered>>

\* The component is removed.
Unmount ==
    /\ mounted
    /\ mounted' = FALSE
    /\ state' = NoState
    /\ props' = NoProps
    /\ rendered' = NoRender
    /\ configModified' = FALSE
    /\ UNCHANGED <<interfaceConfig, store, ownProps>>

Next ==
    \/ Mount
    \/ DynamicBrandingUpdate
    \/ JwtUpdate
    \/ ConferenceUpdate
    \/ Render
    \/ ConfigChange
    \/ Unmount

\* The component's life: construction, store updates, renders, config changes.
Spec == Init /\ [][Next]_vars

NextResolve == Mount

\* One resolution of the three slots from arbitrary inputs.
SpecResolve == InitResolve /\ [][NextResolve]_vars

(***************************************************************************)
(* The decision read off the rendered elements and the inputs.             *)
(***************************************************************************)
Visible(el) == el.type /= "null"

Wrapped(el) == el.type = "a"

IsTrue(x) == x = JsTrue

NonEmptyString(x) == x.t = "string" /\ x.v /= ""

roomActive == NonEmptyString(store.conference.room)

\* The visibility rule of the product slot, on the current inputs.
ProductRule ==
    \/ /\ ~IsTrue(interfaceConfig.filmStripOnly)
       /\ IsTrue(store.dynamicBranding.customizationReady)
       /\ ~IsTrue(store.dynamicBranding.customizationFailed)
       /\ \/ IsTrue(interfaceConfig.SHOW_JITSI_WATERMARK)
          \/ IsTrue(store.jwt.isGuest) /\ IsTrue(interfaceConfig.SHOW_JITSI_WATERMARK_FOR_GUESTS)
    \/ ~roomActive

\* el is a badge linking to link when link is a non-empty string, unwrapped otherwise.
LinksTo(el, link) ==
    IF NonEmptyString(link)
    THEN el.type = "a" /\ el.href = link.v /\ el.child = "div"
    ELSE el.type = "div" /\ el.href = ""

\* C1: the product watermark is visible iff (!filmStripOnly && customizationReady
\* && !customizationFailed && (SHOW_JITSI_WATERMARK || (isGuest &&
\* SHOW_JITSI_WATERMARK_FOR_GUESTS))) || !roomActive.
C1_ProductVisibility == mounted => (Visible(rendered.jitsi) <=> ProductRule)

C1_Witness ==
    /\ mounted /\ roomActive /\ Visible(rendered.jitsi)
    /\ ~IsTrue(interfaceConfig.SHOW_JITSI_WATERMARK)
    /\ IsTrue(store.jwt.isGuest)
    /\ store.dynamicBranding.customizationFailed = JsFalse

\* C2: with no room joined the product watermark is visible, whatever the
\* interface config, the dynamic-branding fields and isGuest are.
C2_WelcomePageAlwaysVisible == (mounted /\ ~roomActive) => Visible(rendered.jitsi)

C2_Witness ==
    /\ mounted /\ ~roomActive /\ Visible(rendered.jitsi)
    /\ IsTrue(interfaceConfig.filmStripOnly)
    /\ ~IsTrue(interfaceConfig.SHOW_JITSI_WATERMARK)
    /\ ~IsTrue(store.dynamicBranding.customizationReady)
    /\ IsTrue(store.dynamicBranding.customizationFailed)

\* C3: the brand watermark is visible iff filmStripOnly is false and
\* SHOW_BRAND_WATERMARK is true; visible with an empty BRAND_WATERMARK_LINK it is
\* an unwrapped <div>, with a non-empty one an <a> whose href is that link.
C3_BrandVisibility ==
    mounted =>
        /\ Visible(rendered.brand) <=>
               (~IsTrue(interfaceConfig.filmStripOnly) /\ IsTrue(interfaceConfig.SHOW_BRAND_WATERMARK))
        /\ Visible(rendered.brand) => LinksTo(rendered.brand, interfaceConfig.BRAND_WATERMARK_LINK)

C3_Witness ==
    /\ mounted /\ Visible(rendered.brand) /\ ~Wrapped(rendered.brand)
    /\ interfaceConfig.BRAND_WATERMARK_LINK = Str("")

\* A slot's element is exactly one of: nothing, an unwrapped badge with no
\* link, a badge wrapped in an anchor with a non-empty link.
ThreeWay(el) ==
    \/ el.type = "null" /\ el.href = "" /\ el.child = "none"
    \/ el.type = "div" /\ el.href = "" /\ el.child = "none"
    \/ el.type = "a" /\ el.href /= "" /\ el.child = "div"

\* C4: each of the brand and product slots is exactly one of not visible,
\* visible with no link, visible with a link; the brand link the component
\* resolves is empty whenever the brand slot is not shown.
C4_ThreeWayAndNoLinkWhenHidden ==
    mounted =>
        /\ ThreeWay(rendered.brand)
        /\ ThreeWay(rendered.jitsi)
        /\ Visible(rendered.brand) <=> IsTrue(state.showBrandWatermark)
        /\ ~IsTrue(state.showBrandWatermark) => state.brandWatermarkLink = Str("")
        /\ Wrapped(rendered.brand) => rendered.brand.href = state.brandWatermarkLink.v

C4_Witness ==
    /\ mounted /\ ~Visible(rendered.brand) /\ ~Visible(rendered.jitsi)
    /\ interfaceConfig.BRAND_WATERMARK_LINK /= Str("")
    /\ interfaceConfig.JITSI_WATERMARK_LINK /= Str("")
    /\ state.brandWatermarkLink = Str("")

\* The CSS reference to an image URL: url(<the URL's string form>).
References(x) == IF x = Undefined THEN "url(undefined)" ELSE "url(" \o x.v \o ")"

\* C5: a visible product watermark with useDynamicBrandingData true links to
\* logoClickUrl (unwrapped when that is empty) and its background image
\* references logoImageUrl, never the static link or default logo.
C5_DynamicBranding ==
    (mounted /\ Visible(rendered.jitsi) /\ IsTrue(store.dynamicBranding.useDynamicBrandingData)) =>
        /\ LinksTo(rendered.jitsi, store.dynamicBranding.logoClickUrl)
        /\ rendered.jitsi.backgroundImage = References(store.dynamicBranding.logoImageUrl)

C5_Witness ==
    /\ mounted /\ ~roomActive /\ IsTrue(interfaceConfig.filmStripOnly)
    /\ IsTrue(store.dynamicBranding.useDynamicBrandingData)
    /\ store.dynamicBranding.logoClickUrl = Str("")
    /\ interfaceConfig.JITSI_WATERMARK_LINK /= Str("")
    /\ rendered.jitsi.type = "div"
    /\ rendered.jitsi.backgroundImage = "url(https://x/logo.png)"

\* C6: a visible product watermark with useDynamicBrandingData not true links to
\* JITSI_WATERMARK_LINK and its background image references defaultJitsiLogoURL
\* when that is non-empty and DEFAULT_LOGO_URL otherwise, whatever logoClickUrl
\* and logoImageUrl are.
C6_StaticBranding ==
    (mounted /\ Visible(rendered.jitsi) /\ ~IsTrue(store.dynamicBranding.useDynamicBrandingData)) =>
        /\ LinksTo(rendered.jitsi, interfaceConfig.JITSI_WATERMARK_LINK)
        /\ rendered.jitsi.backgroundImage =
               IF NonEmptyString(ownProps.defaultJitsiLogoURL)
               THEN References(ownProps.defaultJitsiLogoURL)
               ELSE References(interfaceConfig.DEFAULT_LOGO_URL)

C6_Witness ==
    /\ mounted /\ Visible(rendered.jitsi)
    /\ store.dynamicBranding.useDynamicBrandingData = Undefined
    /\ NonEmptyString(store.dynamicBranding.logoClickUrl)
    /\ NonEmptyString(store.dynamicBranding.logoImageUrl)
    /\ interfaceConfig.JITSI_WATERMARK_LINK = Str("")
    /\ ownProps.defaultJitsiLogoURL = Str("")
    /\ rendered.jitsi.type = "div"
    /\ rendered.jitsi.backgroundImage = "url(images/watermark.png)"

\* C7: the powered-by slot is visible iff SHOW_POWERED_BY is true, whatever
\* filmStripOnly, the branding fields and the session state are.
C7_PoweredBy == mounted => (Visible(rendered.poweredBy) <=> IsTrue(interfaceConfig.SHOW_POWERED_BY))

C7_Witness ==
    /\ mounted /\ Visible(rendered.poweredBy)
    /\ IsTrue(interfaceConfig.filmStripOnly)
    /\ ~roomActive
    /\ rendered.poweredBy.href = "http://jitsi.org"

\* The decision a newly constructed component renders from the current inputs.
FreshDecision ==
    RenderComponent(Constructor(interfaceConfig),
                    MergeProps(ownProps, MapStateToProps(store, interfaceConfig)),
                    interfaceConfig)

\* A step in which the component renders: every step that leaves it mounted
\* other than an assignment to interfaceConfig.
EvaluationStep == mounted' /\ interfaceConfig' = interfaceConfig

Defaulted(s) ==
    LET b == s.dynamicBranding
        flag(x) == IF x = Undefined THEN JsFalse ELSE x
        url(x) == IF x = Undefined THEN Str("") ELSE x
    IN  [s EXCEPT !.dynamicBranding =
            [customizationReady |-> flag(b.customizationReady),
             customizationFailed |-> flag(b.customizationFailed),
             useDynamicBrandingData |-> flag(b.useDynamicBrandingData),
             logoClickUrl |-> url(b.logoClickUrl),
             logoImageUrl |-> url(b.logoImageUrl)]]

\* C9: with any dynamic-branding fields absent the resolution completes with
\* the decision it gives when each absent flag is false and each absent URL is
\* the empty string.
C9_AbsentAsFalsy ==
    mounted =>
        rendered = RenderComponent(Constructor(interfaceConfig),
                                   MergeProps(ownProps, MapStateToProps(Defaulted(store), interfaceConfig)),
                                   interfaceConfig)

\* C10: while the component stays mounted its captured brand visibility, brand
\* link and powered-by visibility, and the brand and powered-by elements it
\* renders, never change; on every store update the product slot's visibility
\* is computed again from the current interface config and store.
C10_CapturedOnceRecomputedOnUpdate ==
    [][(mounted /\ mounted') =>
          /\ state' = state
          /\ rendered'.brand = rendered.brand
          /\ rendered'.poweredBy = rendered.poweredBy
          /\ store' /= store => (Visible(rendered'.jitsi) <=> ProductRule')]_vars

C10_Witness ==
    /\ mounted /\ configModified
    /\ state /= Constructor(interfaceConfig)
    /\ Wrapped(rendered.brand)
    /\ ~IsTrue(interfaceConfig.SHOW_BRAND_WATERMARK)
    /\ Visible(rendered.poweredBy)
    /\ ~IsTrue(interfaceConfig.SHOW_POWERED_BY)
    /\ Visible(rendered.jitsi) /\ roomActive /\ ProductRule

====
